---- MODULE Spec2Model ----
(***************************************************************************)
(* State-machine model of the dashboard of hanhou/CAT-ai-tool-demo-cursor: *)
(* FilterManager (filter_manager.py), ScatterPlotManager                   *)
(* (scatter_plot_manager.py), DataVisualizationApp (app.py) and the        *)
(* dataset of data_generator.py.                                           *)
(*                                                                         *)
(* A DataFrame is the sequence of its row labels, in row order; a cell is  *)
(* read with Cell(row, column).  Strings that the code inspects character  *)
(* by character (product names, regex patterns) are sequences of           *)
(* one-character strings.  A datetime is [year, day].  None is the string   *)
(* "None".                                                                 *)
(***************************************************************************)
EXTENDS Integers, Sequences, FiniteSets, TLC

None == "None"

(***************************************************************************)
(* Bounds of the model.                                                    *)
(***************************************************************************)
\* number of rows of the dataset (n_samples, 1000 in the program)
NRows == 10
\* number of distinct values of the price column
PriceLevels == 3
\* number of distinct values of the quantity column
QuantityLevels == 2
\* largest value of plot_update_trigger the model follows
MaxTrigger == 4

(***************************************************************************)
(* Program constants.                                                      *)
(***************************************************************************)
\* col_data.nunique() < 10: the cardinality threshold of a categorical column
CardThreshold == 10
\* f"Product_{i:04d}"
NameDigits == 4
\* generate_example_data(n_samples=1000)
ScenarioRows == 1000
\* purchase_date: datetime(2023, 1, 1) + timedelta(days=np.random.randint(0, 365))
DateYear == 2023
DateDays == 365
\* 'size': 'size' if size_col else 10
DefaultPointSize == 10
\* min_size_input: value=5, start=1, end=50
DefaultMinSize == 5
MinSizeStart == 1
MinSizeEnd == 50
\* max_size_input: value=20, start=1, end=100
DefaultMaxSize == 20
MaxSizeStart == 1
MaxSizeEnd == 100
\* gamma_input: value=1.0, start=0.1, end=3.0; the model follows the whole
\* exponents 1, 2, 3 of that interval, with which x ** gamma is exact
DefaultGamma == 1
GammaEnd == 3

(***************************************************************************)
(* Characters.  Ascii gives the code of every character the dataset and    *)
(* the patterns use; re.IGNORECASE and character ranges work on codes.     *)
(***************************************************************************)
Ascii ==
    "0" :> 48 @@ "1" :> 49 @@ "2" :> 50 @@ "3" :> 51 @@ "4" :> 52 @@
    "5" :> 53 @@ "6" :> 54 @@ "7" :> 55 @@ "8" :> 56 @@ "9" :> 57 @@
    "-" :> 45 @@ "." :> 46 @@ "[" :> 91 @@ "]" :> 93 @@ "_" :> 95 @@
    "C" :> 67 @@ "D" :> 68 @@ "O" :> 79 @@ "P" :> 80 @@ "R" :> 82 @@
    "T" :> 84 @@ "U" :> 85 @@
    "c" :> 99 @@ "d" :> 100 @@ "o" :> 111 @@ "p" :> 112 @@ "r" :> 114 @@
    "t" :> 116 @@ "u" :> 117

Code(ch) == Ascii[ch]

CharOf(n) == CHOOSE ch \in DOMAIN Ascii : Ascii[ch] = n

\* the code of a character's lower-case and upper-case form
LowerCode(n) == IF n \in 65..90 THEN n + 32 ELSE n

UpperCode(n) == IF n \in 97..122 THEN n - 32 ELSE n

DigitChar(d) == CharOf(48 + d)

RECURSIVE Pow(_, _)
Pow(b, e) == IF e = 0 THEN 1 ELSE b * Pow(b, e - 1)

(***************************************************************************)
(* The dataset (data_generator.py).  The generator's random draws are      *)
(* replaced by fixed periodic values; the column kinds, the column order   *)
(* and the product names are the generator's.                              *)
(***************************************************************************)
Columns ==
    <<"price", "quantity", "category", "product_name", "purchase_date">>

ColumnSet == {Columns[i] : i \in DOMAIN Columns}

\* pd.api.types.is_numeric_dtype / select_dtypes(include=[np.number])
IsNumeric(c) == c \in {"price", "quantity"}

\* dtype == 'object'
IsObject(c) == c \in {"category", "product_name"}

CategoryNames == <<"Electronics", "Clothing">>

RECURSIVE ZeroPadded(_, _)
\* the decimal digits of i, zero-padded to width w
ZeroPadded(i, w) ==
    IF w = 0 THEN <<>> ELSE ZeroPadded(i \div 10, w - 1) \o <<DigitChar(i % 10)>>

ProductName(i) ==
    <<"P", "r", "o", "d", "u", "c", "t", "_">> \o ZeroPadded(i, NameDigits)

Cell(r, c) ==
    CASE c = "price" -> (r % PriceLevels) + 1
      [] c = "quantity" -> ((r \div 3) % QuantityLevels) + 1
      [] c = "category" -> CategoryNames[((r \div 2) % Len(CategoryNames)) + 1]
      [] c = "product_name" -> ProductName(r)
      [] c = "purchase_date" -> [year |-> DateYear, day |-> (r * 37) % DateDays]

\* generate_example_data(): rows labelled 0 .. n_samples-1
original_data == [i \in 1..NRows |-> i - 1]

\* the days of the months of DateYear
MonthDays == <<31, 28, 31, 30, 31, 30, 31, 31, 30, 31, 30, 31>>

RECURSIVE MonthOf(_, _)
\* <<month, day of the month>> of the day d days after the first of month m
MonthOf(d, m) ==
    IF d < MonthDays[m] THEN <<m, d + 1>> ELSE MonthOf(d - MonthDays[m], m + 1)

\* Series.astype(str): a str stays as it is, a datetime at midnight becomes
\* "YYYY-MM-DD"
AsStr(c, v) ==
    IF c = "purchase_date"
    THEN ZeroPadded(v.year, 4) \o <<"-">> \o ZeroPadded(MonthOf(v.day, 1)[1], 2)
             \o <<"-">> \o ZeroPadded(MonthOf(v.day, 1)[2], 2)
    ELSE v

\* the generator produces no missing value
IsMissing(r, c) == FALSE

ColumnValues(data, c) == {Cell(data[i], c) : i \in DOMAIN data}

\* Series.nunique()
NUnique(data, c) == Cardinality(ColumnValues(data, c))

\* Series.min() / Series.max() of a numeric column
ColMin(data, c) ==
    CHOOSE v \in ColumnValues(data, c) : \A w \in ColumnValues(data, c) : v <= w

ColMax(data, c) ==
    CHOOSE v \in ColumnValues(data, c) : \A w \in ColumnValues(data, c) : w <= v

(***************************************************************************)
(* Regular expressions, as far as the patterns of the model need them:     *)
(* literal characters, ".", and character classes "[...]" with ranges.     *)
(* re.compile raises re.error for an unterminated class and for a range    *)
(* whose ends are out of order.                                            *)
(***************************************************************************)
RECURSIVE ClassEnd(_, _)
\* the position of the first "]" at or after j, 0 when there is none
ClassEnd(p, j) ==
    IF j > Len(p) THEN 0 ELSE IF p[j] = "]" THEN j ELSE ClassEnd(p, j + 1)

\* where the class opened at i closes: a "]" right after "[" is a literal
ClassClose(p, i) ==
    IF i + 1 <= Len(p) /\ p[i + 1] = "]" THEN ClassEnd(p, i + 2)
    ELSE ClassEnd(p, i + 1)

RECURSIVE ClassItems(_, _, _)
\* the ranges <<lo, hi>> of the class body p[j .. e-1]
ClassItems(p, j, e) ==
    IF j >= e THEN {}
    ELSE IF j + 2 < e /\ p[j + 1] = "-"
         THEN {<<p[j], p[j + 2]>>} \cup ClassItems(p, j + 3, e)
         ELSE {<<p[j], p[j]>>} \cup ClassItems(p, j + 1, e)

ClassOk(p, j, e) == \A rg \in ClassItems(p, j, e) : Code(rg[1]) <= Code(rg[2])

RECURSIVE ParseFrom(_, _)
\* re.compile(p) from position i: [ok, atoms]; ok = FALSE stands for re.error
ParseFrom(p, i) ==
    IF i > Len(p) THEN [ok |-> TRUE, atoms |-> <<>>]
    ELSE IF p[i] = "["
    THEN LET e == ClassClose(p, i)
         IN  IF e = 0 \/ ~ClassOk(p, i + 1, e)
             THEN [ok |-> FALSE, atoms |-> <<>>]
             ELSE LET rest == ParseFrom(p, e + 1)
                  IN  [ok |-> rest.ok,
                       atoms |-> <<[any |-> FALSE,
                                    ranges |-> ClassItems(p, i + 1, e)]>>
                                 \o rest.atoms]
    ELSE LET rest == ParseFrom(p, i + 1)
             atom == IF p[i] = "."
                     THEN [any |-> TRUE, ranges |-> {}]
                     ELSE [any |-> FALSE, ranges |-> {<<p[i], p[i]>>}]
         IN  [ok |-> rest.ok, atoms |-> <<atom>> \o rest.atoms]

Compile(p) == ParseFrom(p, 1)

\* one atom against one character, ignoring case (case=False)
AtomMatches(a, ch) ==
    \/ a.any
    \/ \E rg \in a.ranges : \E v \in {LowerCode(Code(ch)), UpperCode(Code(ch))} :
          Code(rg[1]) <= v /\ v <= Code(rg[2])

\* re.fullmatch: the whole of s matches
FullMatch(atoms, s) ==
    /\ Len(s) = Len(atoms)
    /\ \A k \in 1..Len(atoms) : AtomMatches(atoms[k], s[k])

\* Series.astype(str).str.contains(pattern, case=False, regex=True, na=False)
\* on one value s of a text column, atoms being the compiled pattern:
\* re.search, the atoms match s at some position
Search(atoms, s) ==
    \E start \in 1..(Len(s) - Len(atoms) + 1) :
        \A k \in 1..Len(atoms) : AtomMatches(atoms[k], s[start + k - 1])

\* re.compile inside Series.str.contains raises re.error
ContainsRaises(pattern) == ~Compile(pattern).ok

(***************************************************************************)
(* FilterManager.  active_filters is the dict of the code, as the sequence *)
(* of its values in insertion order; a value is the filter's widget state: *)
(* [column, type, lo, hi, selected, pattern], of which a numeric filter    *)
(* uses lo and hi (the RangeSlider's value), a categorical one selected    *)
(* (the MultiSelect's value) and a text one pattern (the TextInput's).     *)
(***************************************************************************)
VARIABLES
    active_filters,     \* FilterManager.active_filters
    filters_container,  \* FilterManager.filters_container.objects, by column
    column_selector,    \* FilterManager.column_selector.value
    filtered_data,      \* FilterManager.filtered_data
    update_callback,    \* FilterManager._update_callback
    app_filtered_data,  \* DataVisualizationApp.filtered_data
    aux_received,       \* what a second consumer was last called with
    table,              \* the Tabulator of DataVisualizationApp.data_table
    sm,                 \* the ScatterPlotManager: its widgets and fields
    plot,               \* the pane of DataVisualizationApp.scatter_plot
    event,              \* history: the handler that ran last
    render_log,         \* history: the renders the last handler caused
    round_trip,         \* history: the registry before the last add
    scan                \* the row-by-row evaluation of one regex filter on
                        \* the dataset of n_samples rows: [pattern, pos, view]

vars == <<active_filters, filters_container, column_selector, filtered_data,
          update_callback, app_filtered_data, aux_received, table, sm, plot,
          event, render_log, round_trip, scan>>

\* the regex patterns a user types in the model: none, a literal, a literal
\* in the other case followed by a class, and an unterminated class
Patterns ==
    { <<>>,
      <<"5">>,
      <<"T", "_", "0", "0", "0", "[", "0", "-", "4", "]">>,
      <<"[", "0", "-">> }

\* the callables handed to set_update_callback: the app's _update_from_filters
\* and one other consumer
Consumers == {"app", "aux"}

DictKeys(af) == {af[i].column : i \in DOMAIN af}

DictGet(af, c) == af[CHOOSE i \in DOMAIN af : af[i].column = c]

\* self.active_filters[column] = filter_widget
DictSet(af, f) ==
    IF f.column \in DictKeys(af)
    THEN [i \in DOMAIN af |-> IF af[i].column = f.column THEN f ELSE af[i]]
    ELSE Append(af, f)

\* del self.active_filters[column]
DictDelete(af, c) ==
    LET Other(f) == f.column # c IN SelectSeq(af, Other)

\* pn.widgets.RangeSlider(start=min_val, end=max_val, value=(min_val, max_val))
CreateNumericFilter(c) ==
    [column |-> c, type |-> "numeric",
     lo |-> ColMin(original_data, c), hi |-> ColMax(original_data, c),
     selected |-> {}, pattern |-> <<>>]

\* pn.widgets.MultiSelect(value=unique_values, options=unique_values)
CreateCategoricalFilter(c) ==
    [column |-> c, type |-> "categorical", lo |-> 0, hi |-> 0,
     selected |-> ColumnValues(original_data, c), pattern |-> <<>>]

\* pn.widgets.TextInput(): value ""
CreateTextFilter(c) ==
    [column |-> c, type |-> "text", lo |-> 0, hi |-> 0,
     selected |-> {}, pattern |-> <<>>]

CreateFilterWidgetLoose(c) ==
    IF IsNumeric(c) THEN CreateNumericFilter(c)
    ELSE IF NUnique(original_data, c) <= CardThreshold
         THEN CreateCategoricalFilter(c)
         ELSE CreateTextFilter(c)

CreateFilterWidget(c) ==
    IF IsNumeric(c) THEN CreateNumericFilter(c)
    ELSE IF NUnique(original_data, c) < CardThreshold
         THEN CreateCategoricalFilter(c)
         ELSE CreateTextFilter(c)

\* column and column not in self.active_filters
CanAdd(c, af) == c # None /\ c \notin DictKeys(af)

\* containers = [filter_info['container'] for ... in active_filters.values()]
FiltersDisplay(af) == [i \in DOMAIN af |-> af[i].column]

CaughtNothing(err) == FALSE

\* except re.error
CaughtByExcept(err) == err = "re.error"

InRangeExclusive(v, lo, hi) == v >= lo /\ v < hi

\* (filtered_data[column] >= min_val) & (filtered_data[column] <= max_val)
InRange(v, lo, hi) == v >= lo /\ v <= hi

\* one pass of the loop of _apply_filters over the rows of base:
\* [raised, data]; raised = TRUE when an exception leaves the loop
FilterRows(base, f) ==
    LET Within(r) == InRange(Cell(r, f.column), f.lo, f.hi)
        IsIn(r) == Cell(r, f.column) \in f.selected
        Contains(r) == Search(Compile(f.pattern).atoms,
                              AsStr(f.column, Cell(r, f.column)))
    IN  CASE f.type = "numeric" ->
               [raised |-> FALSE, data |-> SelectSeq(base, Within)]
          [] f.type = "categorical" ->
               IF f.selected # {}
               THEN [raised |-> FALSE, data |-> SelectSeq(base, IsIn)]
               ELSE [raised |-> FALSE, data |-> base]
          [] f.type = "text" ->
               IF f.pattern # <<>>
               THEN IF ContainsRaises(f.pattern)
                    THEN [raised |-> ~CaughtByExcept("re.error"), data |-> base]
                    ELSE [raised |-> FALSE, data |-> SelectSeq(base, Contains)]
               ELSE [raised |-> FALSE, data |-> base]

ApplyOneOnOriginal(fd, f) == FilterRows(original_data, f)

\* filtered_data = filtered_data[mask]: the filter narrows what is left
ApplyOne(fd, f) == FilterRows(fd, f)

RECURSIVE ApplyFrom(_, _, _)
ApplyFrom(fd, af, i) ==
    IF i > Len(af) THEN [raised |-> FALSE, data |-> fd]
    ELSE LET r == ApplyOne(fd, af[i])
         IN  IF r.raised THEN r ELSE ApplyFrom(r.data, af, i + 1)

ApplyFiltersOnCurrent(af) == ApplyFrom(filtered_data, af, 1)

\* _apply_filters up to the assignment of self.filtered_data:
\* filtered_data = self.original_data.copy(), then the loop
ApplyFilters(af) == ApplyFrom(original_data, af, 1)

UpdateFromFiltersStale(old, new_data) == old

\* DataVisualizationApp._update_from_filters: self.filtered_data = new_data
UpdateFromFilters(old, new_data) == new_data

(***************************************************************************)
(* ScatterPlotManager.  sm holds the values and options of its widgets,    *)
(* x_column / y_column and plot_update_trigger.  A pane is                 *)
(* [kind |-> "html", text] or [kind |-> "chart", ...]; a point size is the *)
(* exact fraction <<numerator, denominator>>.                              *)
(***************************************************************************)
Html(text) == [kind |-> "html", text |-> text]

TriggerKept(m) == m

\* trigger_update: self.plot_update_trigger += 1
TriggerUpdate(m) == [m EXCEPT !.plot_update_trigger = @ + 1]

\* ScatterPlotManager.__init__ and _create_plot_controls
InitialScatter ==
    [x_selector |-> None, y_selector |-> None,
     size_selector |-> None, color_selector |-> None,
     x_options |-> <<>>, y_options |-> <<>>,
     size_options |-> <<None>>, color_options |-> <<None>>,
     x_column |-> None, y_column |-> None,
     min_size_input |-> DefaultMinSize, max_size_input |-> DefaultMaxSize,
     gamma_input |-> DefaultGamma, palette_selector |-> "viridis",
     plot_update_trigger |-> 0, has_models |-> FALSE]

\* numeric_cols = data.select_dtypes(include=[np.number]).columns.tolist()
NumericCols == SelectSeq(Columns, IsNumeric)

\* categorical_cols: dtype == 'object' or nunique() < 10
CategoricalCols(data) ==
    LET IsCategorical(c) == IsObject(c) \/ NUnique(data, c) < CardThreshold
    IN  SelectSeq(Columns, IsCategorical)

\* axis_cols = numeric_cols + [col for col in categorical_cols
\*                             if data[col].nunique() < 10]
AxisCols(data) ==
    LET LowCardinality(c) == NUnique(data, c) < CardThreshold
    IN  NumericCols \o SelectSeq(CategoricalCols(data), LowCardinality)

\* a render in progress: the manager, the pane shown, the number of renders
\* that have run inside it and how deep they nested
Context(m, pane) == [sm |-> m, pane |-> pane, renders |-> 0, depth |-> 0]

Max(a, b) == IF a >= b THEN a ELSE b

RECURSIVE ScatterPlot(_, _)
\* r is an evaluation of scatter_plot that ran inside the render c: the
\* widgets it changed are the widgets of c
Absorb(c, r) ==
    [sm |-> r.sm, pane |-> r.pane, renders |-> c.renders + r.renders,
     depth |-> Max(c.depth, r.depth)]

\* a widget's value has changed during a render: its watcher trigger_update
\* runs, and the pane of scatter_plot, which watches plot_update_trigger,
\* evaluates scatter_plot before the assignment returns
ValueChanged(data, c) == Absorb(c, ScatterPlot(data, TriggerUpdate(c.sm)))

\* widget.value = v: the watchers run when the value changes
SetValue(data, c, w, v) ==
    IF c.sm[w] = v THEN c ELSE ValueChanged(data, [c EXCEPT !.sm[w] = v])

InOptions(v, opts) == \E i \in DOMAIN opts : opts[i] = v

SetOptionsFirst(data, c, w, o, opts) ==
    IF c.sm.has_models
    THEN SetValue(data, [c EXCEPT !.sm[o] = opts], w,
                  IF opts = <<>> THEN None ELSE opts[1])
    ELSE [c EXCEPT !.sm[o] = opts]

\* widget.options = opts: a Select that has a model in a browser session
\* replaces a value that is not among its options by the first option (by
\* None when there is no option)
SetOptions(data, c, w, o, opts) ==
    IF c.sm.has_models /\ ~InOptions(c.sm[w], opts)
    THEN SetValue(data, [c EXCEPT !.sm[o] = opts], w,
                  IF opts = <<>> THEN None ELSE opts[1])
    ELSE [c EXCEPT !.sm[o] = opts]

\* self.x_selector.options = axis_cols
OptionsX(data, c) == SetOptions(data, c, "x_selector", "x_options", AxisCols(data))

\* self.y_selector.options = axis_cols
OptionsY(data, c) == SetOptions(data, c, "y_selector", "y_options", AxisCols(data))

\* self.size_selector.options = [None] + numeric_cols
OptionsSize(data, c) ==
    SetOptions(data, c, "size_selector", "size_options", <<None>> \o NumericCols)

\* self.color_selector.options = [None] + numeric_cols + categorical_cols
OptionsColor(data, c) ==
    SetOptions(data, c, "color_selector", "color_options",
               <<None>> \o NumericCols \o CategoricalCols(data))

\* self.x_column = axis_cols[0], after the assignment of the selector's value
XColumnSet(c, v) == [c EXCEPT !.sm.x_column = v]

YColumnSet(c, v) == [c EXCEPT !.sm.y_column = v]

\* if self.x_column is None and axis_cols
DefaultX(data, c) ==
    IF c.sm.x_column = None /\ AxisCols(data) # <<>>
    THEN XColumnSet(SetValue(data, c, "x_selector", AxisCols(data)[1]),
                    AxisCols(data)[1])
    ELSE c

\* if self.y_column is None and len(axis_cols) > 1
DefaultY(data, c) ==
    IF c.sm.y_column = None /\ Len(AxisCols(data)) > 1
    THEN YColumnSet(SetValue(data, c, "y_selector", AxisCols(data)[2]),
                    AxisCols(data)[2])
    ELSE c

\* ScatterPlotManager.update_options, within the render c
UpdateOptions(data, c) ==
    IF data = <<>> THEN c
    ELSE DefaultY(data,
           DefaultX(data,
             OptionsColor(data,
               OptionsSize(data, OptionsY(data, OptionsX(data, c))))))

PointSizeMirrored(v, min_val, max_val, gamma, min_size, max_size) ==
    << min_size * Pow(max_val - min_val, gamma)
         + Pow(max_val - v, gamma) * (max_size - min_size),
       Pow(max_val - min_val, gamma) >>

\* min_size + ((v - min_val) / (max_val - min_val)) ** gamma
\*              * (max_size - min_size), over the denominator
\* (max_val - min_val) ** gamma
PointSize(v, min_val, max_val, gamma, min_size, max_size) ==
    << min_size * Pow(max_val - min_val, gamma)
         + Pow(v - min_val, gamma) * (max_size - min_size),
       Pow(max_val - min_val, gamma) >>

\* 'size': 'size' if size_col else 10
SizeOption(size_col) ==
    IF size_col # None THEN [dim |-> "size", fixed |-> 0]
    ELSE [dim |-> None, fixed |-> DefaultPointSize]

\* plot_data = data[[x_col, y_col]].dropna()
DropNa(data, x_col, y_col) ==
    LET Complete(r) == ~IsMissing(r, x_col) /\ ~IsMissing(r, y_col)
    IN  SelectSeq(data, Complete)

\* the size mapping applies: size_col and size_col in data.columns, numeric,
\* and max_val > min_val
SizeMapped(plot_data, size_col) ==
    /\ size_col # None
    /\ size_col \in ColumnSet
    /\ IsNumeric(size_col)
    /\ ColMax(plot_data, size_col) > ColMin(plot_data, size_col)

\* sizes, by row label
Sizes(plot_data, size_col, min_val, max_val, m) ==
    [r \in {plot_data[i] : i \in DOMAIN plot_data} |->
        PointSize(Cell(r, size_col), min_val, max_val,
                  m.gamma_input, m.min_size_input, m.max_size_input)]

\* the chart: hv.Points(plot_data_final, plot_dimensions, value_dims) with
\* plot_opts
Chart(plot_data, m, mapped, coloured) ==
    [kind |-> "chart",
     x |-> m.x_selector, y |-> m.y_selector,
     index |-> plot_data,
     value_dims |-> (IF mapped THEN <<"size">> ELSE <<>>)
                    \o (IF coloured THEN <<"color">> ELSE <<>>),
     sizes |-> IF mapped
               THEN Sizes(plot_data, m.size_selector,
                          ColMin(plot_data, m.size_selector),
                          ColMax(plot_data, m.size_selector), m)
               ELSE <<>>,
     size |-> SizeOption(m.size_selector),
     color |-> IF m.color_selector # None THEN "color" ELSE None,
     cmap |-> IF m.color_selector # None THEN m.palette_selector ELSE None,
     colorbar |-> m.color_selector # None /\ IsNumeric(m.color_selector),
     legend |-> m.color_selector # None /\ ~IsNumeric(m.color_selector)]

\* an exception has left create_plot
Raised(err) == [kind |-> "raised", text |-> err]

\* hv.Points(plot_data, [x_col, y_col]) raises DataError when both dimensions
\* name the same column: data[[x_col, x_col]] has that column twice
ChartError(m) == IF m.x_selector = m.y_selector THEN "DataError" ELSE None

CaughtOnlyValueError(err) == err = "ValueError"

\* except Exception as e
CaughtByTry(err) == TRUE

\* the except clause of create_plot
Handled(err) ==
    IF CaughtByTry(err) THEN Html("Error creating plot") ELSE Raised(err)

\* create_plot, the try block, on the rows plot_data left by dropna
ChartOrPlaceholder(plot_data, m) ==
    IF plot_data = <<>> THEN Html("No valid data points to plot")
    ELSE IF ChartError(m) # None THEN Handled(ChartError(m))
    ELSE Chart(plot_data, m,
               SizeMapped(plot_data, m.size_selector),
               m.color_selector # None /\ m.color_selector \in ColumnSet)

BuildChart(data, m) ==
    ChartOrPlaceholder(DropNa(data, m.x_selector, m.y_selector), m)

\* create_plot after update_options
PlotWith(data, m) ==
    IF m.x_selector = None \/ m.y_selector = None
    THEN Html("Please select X and Y columns")
    ELSE BuildChart(data, m)

\* the render c returns pane (or ends by the exception pane stands for)
Rendered(c, pane) ==
    [sm |-> c.sm, pane |-> pane,
     renders |-> c.renders + 1, depth |-> c.depth + 1]

\* create_plot from self.update_options(data) on
RenderWith(data, c) == Rendered(c, PlotWith(data, c.sm))

\* ScatterPlotManager.create_plot: [sm, pane, renders, depth]
CreatePlot(data, m) ==
    IF data = <<>>
    THEN Rendered(Context(m, None), Html("No data available"))
    ELSE RenderWith(data, UpdateOptions(data, Context(m, None)))

\* DataVisualizationApp.scatter_plot, which the pane that shows it evaluates
\* when filtered_data or plot_update_trigger changes
ScatterPlot(data, m) == CreatePlot(data, m)

(***************************************************************************)
(* The handlers.  The history variable event names the handler that ran    *)
(* last: [op, raised], raised = TRUE when it ended by an exception that    *)
(* nothing caught.  round_trip keeps, after an add and through the edits   *)
(* of the added filter, the view and the keys from before the add; its     *)
(* phase is "added" until another event intervenes, and "closed" once the  *)
(* added filter has been removed.                                          *)
(***************************************************************************)
Event(op, raised) == [op |-> op, raised |-> raised]

NoRoundTrip ==
    [phase |-> "none", column |-> None, view |-> <<>>, keys |-> {},
     edited |-> FALSE]

\* round_trip after the filter of column c has been edited / removed
RoundTripEdited(c) ==
    IF round_trip.phase = "added" /\ round_trip.column = c
    THEN [round_trip EXCEPT !.edited = TRUE]
    ELSE NoRoundTrip

RoundTripRemoved(c) ==
    IF round_trip.phase = "added" /\ round_trip.column = c
    THEN [round_trip EXCEPT !.phase = "closed"]
    ELSE NoRoundTrip

\* the values a user can give a filter's widget
RangeValues(c) ==
    {<<lo, hi>> \in (ColMin(original_data, c)..ColMax(original_data, c))
                    \X (ColMin(original_data, c)..ColMax(original_data, c)) :
        lo <= hi}

Selections(c) == SUBSET ColumnValues(original_data, c)

\* _create_layout evaluates scatter_plot on the full dataset
FirstRender == ScatterPlot(original_data, InitialScatter)

\* how many times create_plot ran for one event, and how many of these runs
\* were in progress at once
RenderLog(r) == [renders |-> r.renders, depth |-> r.depth]

NoRenders == [renders |-> 0, depth |-> 0]

\* the state after DataVisualizationApp.__init__: the managers are built, the
\* callback is registered and _create_layout has rendered table and plot
InitApp ==
    /\ active_filters = <<>>
    /\ filters_container = <<>>
    /\ column_selector = Columns[1]
    /\ filtered_data = original_data
    /\ update_callback = "app"
    /\ app_filtered_data = original_data
    /\ aux_received = <<>>
    /\ table = original_data
    /\ sm = FirstRender.sm
    /\ plot = FirstRender.pane
    /\ render_log = RenderLog(FirstRender)
    /\ event = Event("init", FALSE)
    /\ round_trip = NoRoundTrip

\* no regex filter is being followed row by row
NoScan == [pattern |-> <<>>, pos |-> 0, view |-> <<>>]

Init == InitApp /\ scan = NoScan

\* app.filtered_data is assigned: data_table and scatter_plot, which depend on
\* it, are evaluated again; r is scatter_plot's evaluation
Rerender(new_data, r) ==
    /\ app_filtered_data' = new_data
    /\ table' = new_data
    /\ r.sm.plot_update_trigger <= MaxTrigger
    /\ sm' = r.sm
    /\ plot' = r.pane
    /\ render_log' = RenderLog(r)

\* the end of _apply_filters: self.filtered_data = filtered_data, then
\* self._update_callback(filtered_data)
Notify(data) ==
    /\ filtered_data' = data
    /\ IF update_callback = "app"
       THEN /\ Rerender(UpdateFromFilters(app_filtered_data, data),
                        ScatterPlot(UpdateFromFilters(app_filtered_data, data),
                                    sm))
            /\ UNCHANGED aux_received
       ELSE /\ aux_received' = data
            /\ render_log' = NoRenders
            /\ UNCHANGED <<app_filtered_data, table, sm, plot>>

\* what _apply_filters does with the outcome res of its loop
Outcome(res, op) ==
    /\ event' = Event(op, res.raised)
    /\ IF res.raised
       THEN /\ render_log' = NoRenders
            /\ UNCHANGED <<filtered_data, app_filtered_data, aux_received,
                           table, sm, plot>>
       ELSE Notify(res.data)

\* _apply_filters on the registry new_af, then the callback and what the
\* callback's assignment of app.filtered_data re-renders
ApplyFiltersAndNotify(new_af, op) == Outcome(ApplyFilters(new_af), op)

\* the user picks a column in "Select Column to Filter"
SelectColumn(c) ==
    /\ c \in ColumnSet
    /\ c # column_selector
    /\ column_selector' = c
    /\ event' = Event("select_column", FALSE)
    /\ render_log' = NoRenders
    /\ UNCHANGED scan
    /\ round_trip' = NoRoundTrip
    /\ UNCHANGED <<active_filters, filters_container, filtered_data,
                   update_callback, app_filtered_data, aux_received, table,
                   sm, plot>>

\* FilterManager._add_filter: the "Add Filter" button
AddFilter ==
    LET column == column_selector
    IN  IF CanAdd(column, active_filters)
        THEN LET new_af == DictSet(active_filters, CreateFilterWidget(column))
             IN  /\ active_filters' = new_af
                 /\ filters_container' = FiltersDisplay(new_af)
                 /\ ApplyFiltersAndNotify(new_af, "add")
                 /\ UNCHANGED scan
                 /\ round_trip' = [phase |-> "added", column |-> column,
                                   view |-> filtered_data,
                                   keys |-> DictKeys(active_filters),
                                   edited |-> FALSE]
                 /\ UNCHANGED <<column_selector, update_callback>>
        ELSE /\ event' = Event("add_noop", FALSE)
             /\ render_log' = NoRenders
             /\ UNCHANGED scan
             /\ round_trip' = NoRoundTrip
             /\ UNCHANGED <<active_filters, filters_container, column_selector,
                            filtered_data, update_callback, app_filtered_data,
                            aux_received, table, sm, plot>>

RemoveFilterKeepView(c) ==
    /\ c \in DictKeys(active_filters)
    /\ active_filters' = DictDelete(active_filters, c)
    /\ filters_container' = FiltersDisplay(active_filters')
    /\ event' = Event("remove", FALSE)
    /\ render_log' = NoRenders
    /\ UNCHANGED scan
    /\ round_trip' = RoundTripRemoved(c)
    /\ UNCHANGED <<column_selector, update_callback, filtered_data,
                   app_filtered_data, aux_received, table, sm, plot>>

\* FilterManager._remove_filter, from the filter's remove button
RemoveFilter(c) ==
    /\ c \in DictKeys(active_filters)
    /\ LET new_af == DictDelete(active_filters, c)
       IN  /\ active_filters' = new_af
           /\ filters_container' = FiltersDisplay(new_af)
           /\ ApplyFiltersAndNotify(new_af, "remove")
    /\ UNCHANGED scan
    /\ round_trip' = RoundTripRemoved(c)
    /\ UNCHANGED <<column_selector, update_callback>>

\* a filter widget's value changes and its update_filter watcher runs
UpdateFilter(c, f) ==
    /\ active_filters' = DictSet(active_filters, f)
    /\ ApplyFiltersAndNotify(active_filters', "update")
    /\ UNCHANGED scan
    /\ round_trip' = RoundTripEdited(c)
    /\ UNCHANGED <<filters_container, column_selector, update_callback>>

\* the RangeSlider of a numeric filter is moved
EditRange(c, v) ==
    /\ c \in DictKeys(active_filters)
    /\ DictGet(active_filters, c).type = "numeric"
    /\ v \in RangeValues(c)
    /\ v # <<DictGet(active_filters, c).lo, DictGet(active_filters, c).hi>>
    /\ UpdateFilter(c, [DictGet(active_filters, c)
                            EXCEPT !.lo = v[1], !.hi = v[2]])

\* the MultiSelect of a categorical filter is changed
EditSelection(c, v) ==
    /\ c \in DictKeys(active_filters)
    /\ DictGet(active_filters, c).type = "categorical"
    /\ v \in Selections(c)
    /\ v # DictGet(active_filters, c).selected
    /\ UpdateFilter(c, [DictGet(active_filters, c) EXCEPT !.selected = v])

\* the TextInput of a text filter is changed
EditPattern(c, v) ==
    /\ c \in DictKeys(active_filters)
    /\ DictGet(active_filters, c).type = "text"
    /\ v \in Patterns
    /\ v # DictGet(active_filters, c).pattern
    /\ UpdateFilter(c, [DictGet(active_filters, c) EXCEPT !.pattern = v])

\* FilterManager.set_update_callback
SetUpdateCallback(cb) ==
    /\ cb \in Consumers
    /\ cb # update_callback
    /\ update_callback' = cb
    /\ event' = Event("set_callback", FALSE)
    /\ render_log' = NoRenders
    /\ UNCHANGED scan
    /\ round_trip' = NoRoundTrip
    /\ UNCHANGED <<active_filters, filters_container, column_selector,
                   filtered_data, app_filtered_data, aux_received, table,
                   sm, plot>>

\* the columns whose filter shows a widget of each kind
FilteredAs(type) ==
    {c \in DictKeys(active_filters) : DictGet(active_filters, c).type = type}

NumericFiltered == FilteredAs("numeric")

CategoricalFiltered == FilteredAs("categorical")

TextFiltered == FilteredAs("text")

\* a plot-setting widget has taken a new value, giving the manager m: its
\* watcher trigger_update runs and scatter_plot, which depends on the trigger,
\* is evaluated again
Replot(r) ==
    /\ r.sm.plot_update_trigger <= MaxTrigger
    /\ sm' = r.sm
    /\ plot' = r.pane
    /\ render_log' = RenderLog(r)

PlotSettingChanged(m) ==
    /\ sm.plot_update_trigger < MaxTrigger
    /\ Replot(ScatterPlot(app_filtered_data, TriggerUpdate(m)))
    /\ event' = Event("plot_setting", FALSE)
    /\ UNCHANGED scan
    /\ round_trip' = NoRoundTrip
    /\ UNCHANGED <<active_filters, filters_container, column_selector,
                   filtered_data, update_callback, app_filtered_data,
                   aux_received, table>>

\* the models of a Select are built from its parameters as if options and
\* value had just been assigned
SyncModels(data, c) ==
    SetOptions(data,
      SetOptions(data,
        SetOptions(data,
          SetOptions(data, c, "x_selector", "x_options", c.sm.x_options),
          "y_selector", "y_options", c.sm.y_options),
        "size_selector", "size_options", c.sm.size_options),
      "color_selector", "color_options", c.sm.color_options)

\* DataVisualizationApp.servable / pn.serve: a browser session opens and the
\* models of the layout's widgets are built
OpenSession ==
    /\ ~sm.has_models
    /\ Replot(SyncModels(app_filtered_data,
                         Context([sm EXCEPT !.has_models = TRUE], plot)))
    /\ event' = Event("open_session", FALSE)
    /\ UNCHANGED scan
    /\ round_trip' = NoRoundTrip
    /\ UNCHANGED <<active_filters, filters_container, column_selector,
                   filtered_data, update_callback, app_filtered_data,
                   aux_received, table>>

\* the "X Axis" selector
ChooseX(c) ==
    /\ InOptions(c, sm.x_options)
    /\ c # sm.x_selector
    /\ PlotSettingChanged([sm EXCEPT !.x_selector = c])

\* the "Y Axis" selector
ChooseY(c) ==
    /\ InOptions(c, sm.y_options)
    /\ c # sm.y_selector
    /\ PlotSettingChanged([sm EXCEPT !.y_selector = c])

\* the "Color Mapping" selector
ChooseColor(c) ==
    /\ InOptions(c, sm.color_options)
    /\ c # sm.color_selector
    /\ PlotSettingChanged([sm EXCEPT !.color_selector = c])

\* the palettes a user picks in the model, of the twelve of the selector
Palettes == {"viridis", "plasma"}

\* the "Color Palette" selector
ChoosePalette(p) ==
    /\ p \in Palettes
    /\ p # sm.palette_selector
    /\ PlotSettingChanged([sm EXCEPT !.palette_selector = p])

\* the values the user gives the two size inputs in the model: both defaults,
\* so that min < max, min = max and min > max all occur
SizeChoices == {DefaultMinSize, DefaultMaxSize}

\* the "Size Mapping" selector
SetSizeSelector(c) ==
    /\ \E i \in DOMAIN sm.size_options : sm.size_options[i] = c
    /\ c # sm.size_selector
    /\ PlotSettingChanged([sm EXCEPT !.size_selector = c])

\* the "Min Size" input: start=1, end=50
SetMinSize(v) ==
    /\ v \in MinSizeStart..MinSizeEnd
    /\ v # sm.min_size_input
    /\ PlotSettingChanged([sm EXCEPT !.min_size_input = v])

\* the "Max Size" input: start=1, end=100
SetMaxSize(v) ==
    /\ v \in MaxSizeStart..MaxSizeEnd
    /\ v # sm.max_size_input
    /\ PlotSettingChanged([sm EXCEPT !.max_size_input = v])

\* the "Gamma" input: start=0.1, end=3.0
SetGamma(g) ==
    /\ g \in 1..GammaEnd
    /\ g # sm.gamma_input
    /\ PlotSettingChanged([sm EXCEPT !.gamma_input = g])

\* the events of the filter panel
SelectColumnEvent(cols) == \E c \in cols : SelectColumn(c)

RemoveFilterEvent == \E c \in ColumnSet : RemoveFilter(c)

EditRangeEvent ==
    \E c \in NumericFiltered : \E v \in RangeValues(c) : EditRange(c, v)

EditSelectionEvent ==
    \E c \in CategoricalFiltered : \E v \in Selections(c) : EditSelection(c, v)

EditPatternEvent ==
    \E c \in TextFiltered : \E v \in Patterns : EditPattern(c, v)

\* the columns the user filters under Spec: one of each kind of filter
FilterColumns == {"price", "category", "product_name"}

Next ==
    \/ SelectColumnEvent(FilterColumns)
    \/ AddFilter
    \/ RemoveFilterEvent
    \/ EditRangeEvent
    \/ EditSelectionEvent
    \/ EditPatternEvent

Spec == Init /\ [][Next]_vars

\* the user filters the columns that get a regex filter, a column of strings
\* and a column of datetimes, and one more
TextFilterColumns == {"category", "product_name", "purchase_date"}

NextText ==
    \/ SelectColumnEvent(TextFilterColumns)
    \/ AddFilter
    \/ RemoveFilterEvent
    \/ EditSelectionEvent
    \/ EditPatternEvent

SpecText == Init /\ [][NextText]_vars

\* the user adds and removes filters on every column
NextAdd ==
    \/ SelectColumnEvent(ColumnSet)
    \/ AddFilter
    \/ RemoveFilterEvent

SpecAdd == Init /\ [][NextAdd]_vars

\* callbacks come and go while the user filters two columns
NotifyColumns == {"price", "category"}

NextNotify ==
    \/ SelectColumnEvent(NotifyColumns)
    \/ AddFilter
    \/ RemoveFilterEvent
    \/ EditRangeEvent
    \/ EditSelectionEvent
    \/ \E cb \in Consumers : SetUpdateCallback(cb)

SpecNotify == Init /\ [][NextNotify]_vars

\* the size settings of the plot change while the user filters the numeric
\* columns
PlotFilterColumns == {"price", "quantity"}

NextPlot ==
    \/ SelectColumnEvent(PlotFilterColumns)
    \/ AddFilter
    \/ RemoveFilterEvent
    \/ EditRangeEvent
    \/ \E c \in ColumnSet \cup {None} : SetSizeSelector(c)
    \/ \E v \in SizeChoices : SetMinSize(v)
    \/ \E v \in SizeChoices : SetMaxSize(v)
    \/ \E g \in 1..GammaEnd : SetGamma(g)

SpecPlot == Init /\ [][NextPlot]_vars

\* a session is opened and the user picks the columns of the plot while a
\* filter on the category narrows and widens the view
SelectorFilterColumns == {"category"}

NextSelectors ==
    \/ OpenSession
    \/ SelectColumnEvent(SelectorFilterColumns)
    \/ AddFilter
    \/ RemoveFilterEvent
    \/ EditSelectionEvent
    \/ \E c \in ColumnSet : ChooseX(c)
    \/ \E c \in ColumnSet : ChooseY(c)
    \/ \E c \in ColumnSet \cup {None} : ChooseColor(c)
    \/ \E c \in ColumnSet \cup {None} : SetSizeSelector(c)

SpecSelectors == Init /\ [][NextSelectors]_vars

\* the user picks the Y axis of the plot while a filter on the category and
\* one on the product name narrow the view, down to no row at all
RenderFilterColumns == {"category", "product_name"}

NextRender ==
    \/ SelectColumnEvent(RenderFilterColumns)
    \/ AddFilter
    \/ RemoveFilterEvent
    \/ EditSelectionEvent
    \/ EditPatternEvent
    \/ \E c \in ColumnSet : ChooseY(c)

SpecRender == Init /\ [][NextRender]_vars

\* the user changes each of the eight plot settings while a filter on the
\* category narrows the view
NextWidgets ==
    \/ SelectColumnEvent(SelectorFilterColumns)
    \/ AddFilter
    \/ RemoveFilterEvent
    \/ EditSelectionEvent
    \/ \E c \in ColumnSet : ChooseX(c)
    \/ \E c \in ColumnSet : ChooseY(c)
    \/ \E c \in ColumnSet \cup {None} : SetSizeSelector(c)
    \/ \E c \in ColumnSet \cup {None} : ChooseColor(c)
    \/ \E v \in SizeChoices : SetMinSize(v)
    \/ \E v \in SizeChoices : SetMaxSize(v)
    \/ \E g \in 1..GammaEnd : SetGamma(g)
    \/ \E p \in Palettes : ChoosePalette(p)

SpecWidgets == Init /\ [][NextWidgets]_vars

\* the patterns followed on the dataset of n_samples rows
ScenarioPatterns ==
    { <<"P", "r", "o", "d", "u", "c", "t", "_", "0", "0", "[", "0", "-", "9", "]">>,
      <<"P", "r", "o", "d", "u", "c", "t", "_", "0", "0", "0",
        "[", "0", "-", "9", "]">> }

\* product_name gets a text filter, the only active filter, holding pattern
ScenarioFilter(pattern) == [CreateTextFilter("product_name") EXCEPT !.pattern = pattern]

InitScenario ==
    /\ InitApp
    /\ scan \in {[pattern |-> p, pos |-> 0, view |-> <<>>] : p \in ScenarioPatterns}

\* _apply_filters on the row labelled scan.pos of the dataset of n_samples
\* rows: the mask of str.contains keeps the row or drops it
ScanRow ==
    /\ scan.pos < ScenarioRows
    /\ scan' = [scan EXCEPT
                   !.pos = @ + 1,
                   !.view = @ \o ApplyFrom(<<scan.pos>>,
                                           <<ScenarioFilter(scan.pattern)>>, 1).data]
    /\ UNCHANGED <<active_filters, filters_container, column_selector,
                   filtered_data, update_callback, app_filtered_data,
                   aux_received, table, sm, plot, event, render_log,
                   round_trip>>

NextScenario == ScanRow

SpecScenario == InitScenario /\ [][NextScenario]_vars

(***************************************************************************)
(* Properties.                                                             *)
(***************************************************************************)
RowsOf(data) == {data[i] : i \in DOMAIN data}

\* C1: in every reachable state the Filtered View's rows are rows of the
\* original Dataset, and with no active filter the Filtered View is the
\* full Dataset.
C1_ViewWithinDataset ==
    /\ RowsOf(filtered_data) \subseteq RowsOf(original_data)
    /\ active_filters = <<>> => filtered_data = original_data

\* the last filter has just been removed, after it had been added to an
\* empty registry and edited
C1_Witness ==
    /\ event.op = "remove"
    /\ active_filters = <<>>
    /\ round_trip.phase = "closed"
    /\ round_trip.edited

\* C2 as claimed: after a recompute the Filtered View is exactly the rows
\* that satisfy every active filter's predicate: lo <= value <= hi, value
\* in the selected set (no value when the set is empty), value matches the
\* pattern (C8 has the pattern that does not compile).
C2_ClaimedPredicate(f, r) ==
    CASE f.type = "numeric" -> f.lo <= Cell(r, f.column) /\ Cell(r, f.column) <= f.hi
      [] f.type = "categorical" -> Cell(r, f.column) \in f.selected
      [] f.type = "text" ->
           \/ ~Compile(f.pattern).ok
           \/ Search(Compile(f.pattern).atoms,
                     AsStr(f.column, Cell(r, f.column)))

\* a recompute has just returned
C2_Recomputed == event.op \in {"add", "remove", "update"} /\ ~event.raised

\* C2 as claimed, over every reachable registry
C2_ExactlyTheMatchingRows ==
    LET Passes(r) ==
            \A i \in DOMAIN active_filters :
                C2_ClaimedPredicate(active_filters[i], r)
    IN  C2_Recomputed => filtered_data = SelectSeq(original_data, Passes)

\* C2 as amended: the same, except that a set-membership filter whose
\* selected set is empty excludes no row.
C2_AmendedPredicate(f, r) ==
    CASE f.type = "numeric" -> f.lo <= Cell(r, f.column) /\ Cell(r, f.column) <= f.hi
      [] f.type = "categorical" ->
           f.selected = {} \/ Cell(r, f.column) \in f.selected
      [] f.type = "text" ->
           \/ ~Compile(f.pattern).ok
           \/ Search(Compile(f.pattern).atoms,
                     AsStr(f.column, Cell(r, f.column)))

\* C2 as amended, over every reachable registry
C2_MatchingRowsUnlessVoid ==
    LET Passes(r) ==
            \A i \in DOMAIN active_filters :
                C2_AmendedPredicate(active_filters[i], r)
    IN  C2_Recomputed => filtered_data = SelectSeq(original_data, Passes)

\* a set-membership filter has just been emptied while a range filter and a
\* regex filter keep some rows and drop others
C2_Witness ==
    /\ event.op = "update"
    /\ \E i \in DOMAIN active_filters :
          active_filters[i].type = "categorical" /\ active_filters[i].selected = {}
    /\ \E i \in DOMAIN active_filters :
          active_filters[i].type = "numeric" /\ active_filters[i].lo = active_filters[i].hi
    /\ \E i \in DOMAIN active_filters :
          active_filters[i].type = "text" /\ active_filters[i].pattern # <<>>
    /\ filtered_data # <<>>

\* C3: the Filtered View is the one every permutation of the registry's
\* insertion order computes, and the filter widgets are displayed in
\* insertion order.
C3_OrderIndependent ==
    /\ \A p \in Permutations(DOMAIN active_filters) :
          LET res == ApplyFilters([i \in DOMAIN active_filters |->
                                      active_filters[p[i]]])
          IN  IF res.raised THEN ApplyFilters(active_filters).raised
              ELSE res.data = filtered_data
    /\ filters_container
          = [i \in DOMAIN active_filters |-> active_filters[i].column]

\* three filters, each of which drops rows the others keep
C3_Witness ==
    /\ Len(active_filters) = 3
    /\ \A i \in DOMAIN active_filters :
          /\ ApplyFilters(<<active_filters[i]>>).data # original_data
          /\ ApplyFilters(<<active_filters[i]>>).data # filtered_data
    /\ filtered_data # <<>>

\* C4: once a filter has been added, edited any number of times and
\* removed with no other event in between, the Filtered View and the set of
\* active columns are those from before the add.
C4_RoundTrip ==
    round_trip.phase = "closed" =>
        /\ filtered_data = round_trip.view
        /\ DictKeys(active_filters) = round_trip.keys

\* a round trip with edits, made while other filters narrowed the view
C4_Witness ==
    /\ round_trip.phase = "closed"
    /\ round_trip.edited
    /\ round_trip.keys # {}
    /\ round_trip.view # original_data

\* C6: addFilter changes the registry only when the selected column has no
\* active filter, and then registers one filter whose kind and seed the
\* column decides: numeric -> range filter on [min, max] of the column in
\* the original dataset; non-numeric with fewer than 10 distinct values ->
\* set-membership filter with every value selected; any other column ->
\* regex filter with the empty pattern.  Otherwise registry, view and
\* display are unchanged.  Keys stay unique.
C6_SeedOf(c) ==
    LET values == {Cell(original_data[i], c) : i \in DOMAIN original_data}
    IN  IF c \in {"price", "quantity"}
        THEN [column |-> c, type |-> "numeric",
              lo |-> CHOOSE v \in values : \A w \in values : v <= w,
              hi |-> CHOOSE v \in values : \A w \in values : v >= w,
              selected |-> {}, pattern |-> <<>>]
        ELSE IF Cardinality(values) < 10
        THEN [column |-> c, type |-> "categorical", lo |-> 0, hi |-> 0,
              selected |-> values, pattern |-> <<>>]
        ELSE [column |-> c, type |-> "text", lo |-> 0, hi |-> 0,
              selected |-> {}, pattern |-> <<>>]

C6_AddStep ==
    /\ event'.op = "add" =>
          /\ \A i \in DOMAIN active_filters :
                active_filters[i].column # column_selector
          /\ active_filters' = Append(active_filters, C6_SeedOf(column_selector))
    /\ event'.op = "add_noop" =>
          /\ \E i \in DOMAIN active_filters :
                active_filters[i].column = column_selector
          /\ UNCHANGED <<active_filters, filtered_data, filters_container>>
    /\ \A i, j \in DOMAIN active_filters' :
          active_filters'[i].column = active_filters'[j].column => i = j

\* C6: every step of the program is such a step
C6_AddFilter == [][C6_AddStep]_vars

\* a filter of each kind has been registered, the last one just now; the
\* two regex filters sit on columns of ten distinct values
C6_Witness ==
    /\ event.op = "add"
    /\ {active_filters[i].type : i \in DOMAIN active_filters}
          = {"numeric", "categorical", "text"}
    /\ {"product_name", "purchase_date"} \subseteq DictKeys(active_filters)

\* C7: every add, remove and filter-value update that succeeds recomputes
\* the view from the registry it leaves and hands it to the one registered
\* consumer: the app, whose filtered_data is then the Filtered View, or the
\* callback registered in its place, and never both.
C7_NotifyStep ==
    (event'.op \in {"add", "remove", "update"} /\ ~event'.raised) =>
        /\ filtered_data' = ApplyFilters(active_filters').data
        /\ update_callback = "app" =>
              /\ app_filtered_data' = filtered_data'
              /\ table' = filtered_data'
              /\ UNCHANGED aux_received
        /\ update_callback = "aux" =>
              /\ aux_received' = filtered_data'
              /\ UNCHANGED app_filtered_data

\* C7: every step of the program notifies as C7_NotifyStep says
C7_NotifiesTheConsumer == [][C7_NotifyStep]_vars

\* the app is the consumer again after another callback had replaced it; an
\* update has just changed the view and only the app has received it
C7_Witness ==
    /\ event.op = "update"
    /\ update_callback = "app"
    /\ aux_received # <<>>
    /\ aux_received # filtered_data
    /\ app_filtered_data = filtered_data
    /\ filtered_data # original_data

\* C8: while a regex filter holds a pattern that does not compile, the
\* recompute ends without raising, the view is the one the other active
\* filters give, and the consumer has received it.
C8_InvalidPatternPassesThrough ==
    \A i \in DOMAIN active_filters :
        (active_filters[i].type = "text" /\ ~Compile(active_filters[i].pattern).ok) =>
            /\ ~event.raised
            /\ filtered_data
                  = ApplyFilters(DictDelete(active_filters,
                                            active_filters[i].column)).data
            /\ app_filtered_data = filtered_data

\* a pattern that does not compile has just been typed into a regex filter
\* while two other filters, one of them a regex filter, narrow the view
C8_Witness ==
    /\ event.op = "update"
    /\ Len(active_filters) = 3
    /\ \E i \in DOMAIN active_filters :
          /\ active_filters[i].type = "text"
          /\ ~Compile(active_filters[i].pattern).ok
          /\ round_trip.column = active_filters[i].column
    /\ \E i \in DOMAIN active_filters :
          /\ active_filters[i].type = "text"
          /\ Compile(active_filters[i].pattern).ok
          /\ ApplyFilters(<<active_filters[i]>>).data # original_data
    /\ \E i \in DOMAIN active_filters :
          /\ active_filters[i].type = "categorical"
          /\ ApplyFilters(<<active_filters[i]>>).data # original_data
    /\ filtered_data # <<>>

\* the chart shows a selected size column
C9_SizeColumnPlotted == plot.kind = "chart" /\ sm.size_selector # None

\* the values of the size column over the plotted rows
C9_PlottedSizeValues ==
    {Cell(plot.index[i], sm.size_selector) : i \in DOMAIN plot.index}

\* C9: when the values of the selected size column are all equal over the
\* plotted rows, the chart has no mapped size dimension and draws every
\* point with the fixed default size.
C9_ConstantColumnFixedSize ==
    (C9_SizeColumnPlotted /\ Cardinality(C9_PlottedSizeValues) = 1) =>
        /\ \A i \in DOMAIN plot.value_dims : plot.value_dims[i] # "size"
        /\ plot.sizes = <<>>
        /\ plot.size = [dim |-> None, fixed |-> DefaultPointSize]

\* fractions with positive denominators, compared by cross-multiplication
C10_Less(p, q) == p[1] * q[2] < q[1] * p[2]

\* the chart carries mapped sizes
C10_SizesMapped ==
    /\ plot.kind = "chart"
    /\ \E i \in DOMAIN plot.value_dims : plot.value_dims[i] = "size"

C10_RankPreserved ==
    \A a, b \in RowsOf(plot.index) :
        Cell(a, sm.size_selector) < Cell(b, sm.size_selector)
            => C10_Less(plot.sizes[a], plot.sizes[b])

\* C10 as claimed: the mapped sizes strictly preserve the rank order of the
\* size column within the view, for every gamma and every min-size /
\* max-size pair the inputs admit.
C10_RankPreservedForAllPairs == C10_SizesMapped => C10_RankPreserved

\* C10 as amended: the same for the pairs with min size < max size.
C10_RankPreservedWhenMinBelowMax ==
    (C10_SizesMapped /\ sm.min_size_input < sm.max_size_input)
        => C10_RankPreserved

\* three distinct values of the size column are plotted with gamma = 2 and
\* min size < max size, in a view that a filter has narrowed
C10_Witness ==
    /\ C10_SizesMapped
    /\ sm.min_size_input < sm.max_size_input
    /\ sm.gamma_input = 2
    /\ Cardinality({Cell(r, sm.size_selector) : r \in RowsOf(plot.index)}) >= 3
    /\ Len(plot.index) < NRows

\* the view once every row of the dataset has been through the filter
C11_ScenarioView ==
    {scan.view[i] : i \in DOMAIN scan.view}

C11_ScenarioDone ==
    /\ scan.pattern = <<"P", "r", "o", "d", "u", "c", "t", "_", "0", "0",
                        "[", "0", "-", "9", "]">>
    /\ scan.pos = 1000

\* C11 as claimed: on the 1000-row dataset, with pattern "Product_00[0-9]"
\* on product_name as the only filter, the view is the 10 rows 0 to 9.
C11_TenRows ==
    C11_ScenarioDone => (Len(scan.view) = 10 /\ C11_ScenarioView = 0..9)

\* C11 as amended: the view is the 100 rows 0 to 99.
C11_HundredRows ==
    C11_ScenarioDone => (Len(scan.view) = 100 /\ C11_ScenarioView = 0..99)

\* every row of the dataset has been through the filter and some were kept,
\* some dropped
C11_Witness ==
    /\ C11_ScenarioDone
    /\ scan.view # <<>>
    /\ Len(scan.view) < scan.pos

\* the selectors of update_options: the field of the value and of the options
Selectors ==
    {<<"x_selector", "x_options">>, <<"y_selector", "y_options">>,
     <<"size_selector", "size_options">>,
     <<"color_selector", "color_options">>}

\* the step is the user's own change of the selector w
C12_UserChose(w) ==
    CASE w = "x_selector" -> \E c \in ColumnSet : ChooseX(c)
      [] w = "y_selector" -> \E c \in ColumnSet : ChooseY(c)
      [] w = "size_selector" -> \E c \in ColumnSet \cup {None} : SetSizeSelector(c)
      [] w = "color_selector" -> \E c \in ColumnSet \cup {None} : ChooseColor(c)

C12_KeptStep ==
    \A s \in Selectors :
        (sm'[s[1]] # sm[s[1]] /\ InOptions(sm[s[1]], sm'[s[2]]))
            => C12_UserChose(s[1])

\* C12: a step that is not the user's own change of a selector (a filter
\* change, a change of another plot setting, the opening of the session, with
\* the refreshes of the options and the re-renders they cause) leaves the
\* value of the X, Y, size and color selector as it was when that value is
\* among the selector's options after the step
C12_SelectionKept == [][C12_KeptStep]_vars

\* the filter was edited in an open session after the user had chosen the
\* category for X and for the color, and the plot was rendered again with
\* these choices
C12_Witness ==
    /\ sm.has_models
    /\ event.op = "update"
    /\ render_log.renders >= 1
    /\ sm.x_selector = "category"
    /\ sm.color_selector = "category"
    /\ InOptions(sm.x_selector, sm.x_options)

\* the refresh of the step found the selector's value w missing from its new
\* options o
C13_Dropped(w, o) == ~InOptions(sm[w], sm'[o])

C13_RedefaultStep ==
    /\ C13_Dropped("x_selector", "x_options")
           => /\ sm'.x_options # <<>>
              /\ sm'.x_selector = sm'.x_options[1]
    /\ C13_Dropped("y_selector", "y_options")
           => /\ Len(sm'.y_options) > 1
              /\ sm'.y_selector = sm'.y_options[2]
    /\ plot'.kind # "raised"

\* C13: when a step's refresh of the options drops the column chosen for X
\* or for Y from the eligible columns, the step ends with X on the first and
\* Y on the second eligible column, and no exception leaves the render
C13_DroppedColumnRedefaulted == [][C13_RedefaultStep]_vars

C14_Placeholder(pane, text) == pane = Html(text)

PlotWidgets ==
    {"x_selector", "y_selector", "size_selector", "color_selector",
     "min_size_input", "max_size_input", "gamma_input", "palette_selector"}

C15_TriggerStep ==
    /\ sm'.plot_update_trigger >= sm.plot_update_trigger
    /\ \A w \in PlotWidgets :
           sm'[w] # sm[w] => sm'.plot_update_trigger > sm.plot_update_trigger
    /\ event'.op = "plot_setting"
           => /\ sm'.plot_update_trigger = sm.plot_update_trigger + 1
              /\ render_log'.renders >= 1
              /\ UNCHANGED <<active_filters, filters_container, filtered_data,
                             app_filtered_data, table>>

\* C15: no step decreases plot_update_trigger, every step that changes the
\* value of one of the eight plot-setting widgets increases it, and the
\* user's change of such a widget increases it by one, renders the plot and
\* leaves the registry of filters, its display, the filtered view and the
\* table as they were
C15_TriggerMonotonic == [][C15_TriggerStep]_vars

\* the palette was changed, as the second change of a plot setting, while a
\* filter narrowed the view
C15_Witness ==
    /\ event.op = "plot_setting"
    /\ sm.palette_selector = "plasma"
    /\ sm.plot_update_trigger = FirstRender.sm.plot_update_trigger + 2
    /\ active_filters # <<>>
    /\ Len(app_filtered_data) < NRows
    /\ table = app_filtered_data

\* C16: no evaluation of scatter_plot / create_plot begins while another one
\* is in progress: of the renders an event causes, the one that began last
\* has ended before the next begins, so at most one is in progress at a time
C16_RunToCompletion == render_log.depth <= 1

====
